---- MODULE Spec2Model ----
(***************************************************************************)
(* A model of src/game.py: the bit-packed board encoding, the Player turn  *)
(* cycle, the validated immutable GameState and the mutable Game wrapper.  *)
(*                                                                         *)
(* Players are modelled by their index 1..players in the list handed to    *)
(* Game (a Player is identified by its representation, and the list holds  *)
(* distinct representations).  A board mask is a natural number; Python's  *)
(* integers are unbounded, so no width is imposed on the arithmetic.       *)
(* A cell is a pair <<row, col>>.                                          *)
(***************************************************************************)
EXTENDS Integers, Sequences, FiniteSets, TLC

VARIABLES
    players,   \* Game._players: the number of players wired into the turn cycle
    state,     \* Game._state, or the GameState last constructed (NoState if none)
    args,      \* the arguments a pending GameState(...) call is made with (NoArgs if none)
    ret        \* the outcome of the last call: its exception and, for make_move, its result

vars == <<players, state, args, ret>>

\* The side length Game uses by default; the boards of the model have side 1..DefaultLength.
DefaultLength == 3

\* The largest number of players in a game of the model.
MaxPlayers == 3

\* The size of the default player list [Player('X'), Player('O')].
DefaultPlayers == 2

\* The number of bits the bit operators of the model handle in one step.
ChunkBits == 5

-----------------------------------------------------------------------------
(* Python's bit operators on non-negative integers.  They work on chunks of   *)
(* ChunkBits bits: a table gives the result on two chunks, computed bit by bit. *)

RECURSIVE and_bits(_, _)
and_bits(a, b) ==
    IF a = 0 \/ b = 0 THEN 0
    ELSE (a % 2) * (b % 2) + 2 * and_bits(a \div 2, b \div 2)

RECURSIVE or_bits(_, _)
or_bits(a, b) ==
    IF a = 0 THEN b
    ELSE IF b = 0 THEN a
    ELSE (IF a % 2 = 1 \/ b % 2 = 1 THEN 1 ELSE 0) + 2 * or_bits(a \div 2, b \div 2)

RECURSIVE xor_bits(_, _)
xor_bits(a, b) ==
    IF a = 0 THEN b
    ELSE IF b = 0 THEN a
    ELSE ((a + b) % 2) + 2 * xor_bits(a \div 2, b \div 2)

Chunk == 2 ^ ChunkBits

and_chunk == [a \in 0..(Chunk - 1) |-> [b \in 0..(Chunk - 1) |-> and_bits(a, b)]]

or_chunk == [a \in 0..(Chunk - 1) |-> [b \in 0..(Chunk - 1) |-> or_bits(a, b)]]

xor_chunk == [a \in 0..(Chunk - 1) |-> [b \in 0..(Chunk - 1) |-> xor_bits(a, b)]]

RECURSIVE BitAnd(_, _)
BitAnd(a, b) ==
    IF a = 0 \/ b = 0 THEN 0
    ELSE and_chunk[a % Chunk][b % Chunk] + Chunk * BitAnd(a \div Chunk, b \div Chunk)

RECURSIVE BitOr(_, _)
BitOr(a, b) ==
    IF a = 0 THEN b
    ELSE IF b = 0 THEN a
    ELSE or_chunk[a % Chunk][b % Chunk] + Chunk * BitOr(a \div Chunk, b \div Chunk)

RECURSIVE BitXor(_, _)
BitXor(a, b) ==
    IF a = 0 THEN b
    ELSE IF b = 0 THEN a
    ELSE xor_chunk[a % Chunk][b % Chunk] + Chunk * BitXor(a \div Chunk, b \div Chunk)

Shl(a, k) == a * (2 ^ k)

Shr(a, k) == a \div (2 ^ k)

-----------------------------------------------------------------------------
(* Module-level helpers of game.py. *)

\* chain.from_iterable(grid): the entries of the rows, one row after the other.
RECURSIVE chain_from_iterable(_, _)
chain_from_iterable(grid, r) ==
    IF r > Len(grid) THEN << >>
    ELSE grid[r] \o chain_from_iterable(grid, r + 1)

\* reduce(lambda acc, cell: acc << 1 | cell, cells, acc) from entry i on.
RECURSIVE shift_or_loop(_, _, _)
shift_or_loop(cells, i, acc) ==
    IF i > Len(cells) THEN acc
    ELSE shift_or_loop(cells, i + 1, BitOr(Shl(acc, 1), cells[i]))

\* Fault: the entries are packed from the last one to the first, which puts cell
\* (0,0) in the least significant bit.
RECURSIVE shift_or_loop_backwards(_, _, _)
shift_or_loop_backwards(cells, i, acc) ==
    IF i > Len(cells) THEN acc
    ELSE shift_or_loop_backwards(cells, i + 1, BitOr(Shl(acc, 1), cells[Len(cells) + 1 - i]))

matrix_to_bitstring_backwards(grid) ==
    IF \E r \in DOMAIN grid : Len(grid[r]) # Len(grid)
    THEN [exc |-> "TypeError", msg |-> "Grid is not square.", value |-> 0]
    ELSE [exc |-> "None", msg |-> "",
          value |-> shift_or_loop_backwards(chain_from_iterable(grid, 1), 1, 0)]

\* matrix_to_bitstring on a tuple of tuples of integers: the rows are checked
\* against the number of rows, then the entries against {0, 1}, then the entries
\* are packed.
matrix_to_bitstring(grid) ==
    IF \E r \in DOMAIN grid : Len(grid[r]) # Len(grid)
    THEN [exc |-> "TypeError", msg |-> "Grid is not square.", value |-> 0]
    ELSE LET cells == chain_from_iterable(grid, 1)
         IN  IF \E i \in DOMAIN cells : cells[i] \notin {0, 1}
             THEN [exc |-> "ValueError", msg |-> "not a valid bit value.", value |-> 0]
             ELSE [exc |-> "None", msg |-> "", value |-> shift_or_loop(cells, 1, 0)]

\* bit_sum: the loop adds bitstring & 1 and shifts right until the value is 0.
RECURSIVE bit_sum(_)
bit_sum(bitstring) ==
    IF bitstring = 0 THEN 0
    ELSE BitAnd(bitstring, 1) + bit_sum(Shr(bitstring, 1))

\* The loop of occupied_cells from iteration i on: result.append(...) for a set
\* low bit, then bitstring >>= 1.
RECURSIVE occupied_loop(_, _, _)
occupied_loop(bitstring, n, i) ==
    IF i >= n * n THEN << >>
    ELSE (IF BitAnd(bitstring, 1) = 1
          THEN << <<(n * n - 1 - i) \div n, (n * n - 1 - i) % n>> >>
          ELSE << >>)
         \o occupied_loop(Shr(bitstring, 1), n, i + 1)

\* Fault: the coordinates are counted from the least significant bit, as if bit 0
\* were cell (0,0).
RECURSIVE occupied_loop_lsb(_, _, _)
occupied_loop_lsb(bitstring, n, i) ==
    IF i >= n * n THEN << >>
    ELSE (IF BitAnd(bitstring, 1) = 1 THEN << <<i \div n, i % n>> >> ELSE << >>)
         \o occupied_loop_lsb(Shr(bitstring, 1), n, i + 1)

occupied_cells_lsb(bitstring, n) == occupied_loop_lsb(bitstring, n, 0)

occupied_cells(bitstring, n) == occupied_loop(bitstring, n, 0)

Range(seq) == {seq[i] : i \in DOMAIN seq}

-----------------------------------------------------------------------------
(* Player: the turn cycle. *)

\* A Player object: its representation, which identifies it, and _next, the
\* representation of the Player it refers to.  A representation is a tuple of
\* characters; None is the empty tuple, which ord() rejects, so no Player has it.
None == << >>

\* Player.__init__: ord(representation) raises TypeError unless the string has
\* one character; then self.next = self stores the Player itself in _next.
PlayerInit(representation) ==
    IF Len(representation) # 1
    THEN [exc |-> "TypeError", msg |-> "The player representation must be a single ascii character.",
          player |-> [representation |-> None, _next |-> None]]
    ELSE [exc |-> "None", msg |-> "",
          player |-> [representation |-> representation, _next |-> representation]]

\* The getter of Player.next: a Player object is true, None is not.
PlayerGetNext(p) ==
    IF p._next = None
    THEN [exc |-> "RuntimeError", msg |-> "No next player has been set.", value |-> None]
    ELSE [exc |-> "None", msg |-> "", value |-> p._next]

\* Fault: the setter wires the list backwards, players[i].next = players[i - 1].
PlayerNextBackwards(p) ==
    IF p > players THEN p
    ELSE IF p = 1 THEN players
    ELSE p - 1

\* Player.next.  Player.__init__ sets next to the player itself; the players
\* setter of Game rewires the list into a cycle: players[i - 1].next = players[i].
\* An index above players is a Player that is in no game's list.
PlayerNext(p) ==
    IF p > players THEN p
    ELSE IF p = players THEN 1
    ELSE p + 1

-----------------------------------------------------------------------------
(* GameState. *)

\* column = reduce(lambda acc, _: acc << length | 1, range(length), 0)
RECURSIVE column_seed(_, _)
column_seed(length, k) ==
    IF k = 0 THEN 0
    ELSE BitOr(Shl(column_seed(length, k - 1), length), 1)

\* The for loop: sequences.extend([row, column]); row <<= length; column <<= 1
RECURSIVE lines_loop(_, _, _, _)
lines_loop(length, row, column, k) ==
    IF k = 0 THEN << >>
    ELSE <<row, column>> \o lines_loop(length, Shl(row, length), Shl(column, 1), k - 1)

\* reduce(lambda acc, i: acc | 1 << i * (length + 1), range(length), 0)
RECURSIVE diagonal(_, _)
diagonal(length, k) ==
    IF k = 0 THEN 0
    ELSE BitOr(diagonal(length, k - 1), Shl(1, (k - 1) * (length + 1)))

\* Fault: the second diagonal is shifted by i * (length - 1) instead of
\* (i + 1) * (length - 1).
RECURSIVE antidiagonal_from_zero(_, _)
antidiagonal_from_zero(length, k) ==
    IF k = 0 THEN 0
    ELSE BitOr(antidiagonal_from_zero(length, k - 1), Shl(1, (k - 1) * (length - 1)))

\* reduce(lambda acc, i: acc | 1 << (i + 1) * (length - 1), range(length), 0)
RECURSIVE antidiagonal(_, _)
antidiagonal(length, k) ==
    IF k = 0 THEN 0
    ELSE BitOr(antidiagonal(length, k - 1), Shl(1, k * (length - 1)))

\* The list built by generate_winning_sequences before set() removes duplicates.
sequences_list(length) ==
    lines_loop(length, Shl(1, length) - 1, column_seed(length, length), length)
        \o <<diagonal(length, length), antidiagonal(length, length)>>

generate_winning_sequences(length) == Range(sequences_list(length))

\* GameState._winning_sequences: the class-level cache, one entry per side length.
_winning_sequences == [length \in 1..DefaultLength |-> generate_winning_sequences(length)]

winning_sequences(s) == _winning_sequences[s.length]

\* The value held when no GameState exists (a constructor that raised).
NoState == [data |-> << >>, length |-> 0, turn |-> 0]

\* The winning lines a bitstring covers: filter(lambda s: not (bitstring & s ^ s), ...),
\* each as its list of cells.
covered_sequences(s, bitstring) ==
    {occupied_cells(w, s.length) :
        w \in {w \in winning_sequences(s) : BitXor(BitAnd(bitstring, w), w) = 0}}

\* GameState.get_winning_sequences: winning player -> its winning sequences.
\* The list of a player's sequences is kept as a set (its order is the set's
\* iteration order in the code).
get_winning_sequences(s) ==
    LET sequences == [q \in DOMAIN s.data |-> covered_sequences(s, s.data[q])]
    IN  [p \in {q \in DOMAIN s.data : sequences[q] # {}} |-> sequences[p]]

\* next(iter(sequences)): the first key of the dict, which get_winning_sequences
\* fills in the order of the players.
first_key(sequences) == CHOOSE q \in DOMAIN sequences : \A o \in DOMAIN sequences : q <= o

\* reduce(lambda acc, bitstring: acc | bitstring, self.data.values(), 0)
RECURSIVE union_loop(_, _)
union_loop(data, k) ==
    IF k = 0 THEN 0 ELSE BitOr(union_loop(data, k - 1), data[k])

all_occupied(s) == union_loop(s.data, Len(s.data))

\* Fault: the full board is taken to be 1 << length ** 2, without the - 1.
is_grid_filled_no_minus(s) == BitXor(Shl(1, s.length * s.length), all_occupied(s)) = 0

is_grid_filled(s) == BitXor(Shl(1, s.length * s.length) - 1, all_occupied(s)) = 0

get_empty_cells(s) ==
    occupied_cells(BitXor(Shl(1, s.length * s.length) - 1, all_occupied(s)), s.length)

\* combinations(self.data.values(), 2), in the order itertools yields the pairs.
RECURSIVE pairs_from(_, _, _)
pairs_from(i, j, k) ==
    IF i >= k THEN << >>
    ELSE IF j > k THEN pairs_from(i + 1, i + 2, k)
    ELSE << <<i, j>> >> \o pairs_from(i, j + 1, k)

combinations2(k) == pairs_from(1, 2, k)

Abs(x) == IF x < 0 THEN -x ELSE x

\* Fault: the loop over the pairs checks the overlap and not the distribution.
RECURSIVE pairs_check_overlap_only(_, _, _)
pairs_check_overlap_only(data, pairs, i) ==
    IF i > Len(pairs) THEN "ok"
    ELSE IF BitAnd(data[pairs[i][1]], data[pairs[i][2]]) # 0
         THEN "Cell is occupied by multiple players."
    ELSE pairs_check_overlap_only(data, pairs, i + 1)

\* The loop over the pairs in validate: the message of the first check that fails.
RECURSIVE pairs_check(_, _, _)
pairs_check(data, pairs, i) ==
    IF i > Len(pairs) THEN "ok"
    ELSE IF BitAnd(data[pairs[i][1]], data[pairs[i][2]]) # 0
         THEN "Cell is occupied by multiple players."
    ELSE IF Abs(bit_sum(data[pairs[i][1]]) - bit_sum(data[pairs[i][2]])) > 1
         THEN "Cell distribution is invalid."
    ELSE pairs_check(data, pairs, i + 1)

\* Fault: validate without its last check, that of the turn after a win.
validate_any_turn(s) ==
    IF s.turn \notin DOMAIN s.data THEN "Turn is invalid."
    ELSE LET distribution == pairs_check(s.data, combinations2(Len(s.data)), 1)
             sequences == get_winning_sequences(s)
         IN  IF distribution # "ok" THEN distribution
             ELSE IF Cardinality(DOMAIN sequences) > 1 THEN "Multiple players have won."
             ELSE "ok"

\* GameState.validate: "ok", or the message of the RuntimeError it raises.
validate(s) ==
    IF s.turn \notin DOMAIN s.data THEN "Turn is invalid."
    ELSE LET distribution == pairs_check(s.data, combinations2(Len(s.data)), 1)
             sequences == get_winning_sequences(s)
         IN  IF distribution # "ok" THEN distribution
             ELSE IF Cardinality(DOMAIN sequences) > 1 THEN "Multiple players have won."
             ELSE IF /\ DOMAIN sequences # {}
                     /\ PlayerNext(first_key(sequences)) # s.turn
                  THEN "Turn doesn't correspond to winning player."
             ELSE "ok"

\* Fault: the constructor stores the fields and does not call validate.
GameStateInit_unvalidated(data, length, turn) ==
    [exc |-> "None", msg |-> "", state |-> [data |-> data, length |-> length, turn |-> turn]]

\* GameState.__init__ with integer masks: store the fields, then validate.
\* exc is "None" when the constructor returns, and then state is the new GameState.
GameStateInit(data, length, turn) ==
    LET s == [data |-> data, length |-> length, turn |-> turn]
        v == validate(s)
    IN  IF v = "ok"
        THEN [exc |-> "None", msg |-> "", state |-> s]
        ELSE [exc |-> "RuntimeError", msg |-> v, state |-> NoState]

\* The dict comprehension of GameState.__init__ when the values of data are
\* tuples: matrix_to_bitstring on the grid of each player in turn, from player p
\* on; the first exception ends it.
RECURSIVE bitstrings_of(_, _)
bitstrings_of(data, p) ==
    IF p > Len(data) THEN [exc |-> "None", msg |-> "", value |-> << >>]
    ELSE LET d == matrix_to_bitstring(data[p])
         IN  IF d.exc # "None" THEN [exc |-> d.exc, msg |-> d.msg, value |-> << >>]
             ELSE LET rest == bitstrings_of(data, p + 1)
                  IN  IF rest.exc # "None" THEN rest
                      ELSE [exc |-> "None", msg |-> "", value |-> <<d.value>> \o rest.value]

\* GameState.__init__ with a grid for each player: the grids are converted, the
\* fields stored, and the state validated.
GameStateInitGrids(data, length, turn) ==
    LET converted == bitstrings_of(data, 1)
    IN  IF converted.exc # "None"
        THEN [exc |-> converted.exc, msg |-> converted.msg, state |-> NoState]
        ELSE GameStateInit(converted.value, length, turn)

\* zip(self.data.values()): zip is given one iterable, so each item is a tuple
\* of one mask.
zip_values(data) == [p \in DOMAIN data |-> <<data[p]>>]

\* reduce(lambda acc, pair: acc | pair[0] ^ pair[1], pairs, acc) from item i on;
\* pair[1] of a tuple of one element raises IndexError.
RECURSIVE xor_loop(_, _, _)
xor_loop(pairs, i, acc) ==
    IF i > Len(pairs) THEN [exc |-> "None", msg |-> "", value |-> acc]
    ELSE IF Len(pairs[i]) < 2
         THEN [exc |-> "IndexError", msg |-> "tuple index out of range", value |-> acc]
    ELSE xor_loop(pairs, i + 1, BitOr(acc, BitXor(pairs[i][1], pairs[i][2])))

\* GameState.__eq__ when other is a GameState.
GameStateEq(s, other) ==
    LET r == xor_loop(zip_values(s.data), 1, 0)
    IN  IF r.exc # "None" THEN [exc |-> r.exc, msg |-> r.msg, value |-> FALSE]
        ELSE [exc |-> "None", msg |-> "", value |-> r.value = 0]

BoardCellsOf(s) == (0..(s.length - 1)) \X (0..(s.length - 1))

\* Fault: newdata is self.data itself and not a copy of it, so the state the call
\* is made on takes the new bit whether or not the successor is valid.
generate_successor_inplace(s, cell) ==
    IF cell \notin Range(get_empty_cells(s))
    THEN [exc |-> "ValueError", msg |-> "Cell is already occupied.",
          state |-> NoState, self |-> s]
    ELSE LET bitmask == Shl(1, s.length * s.length - cell[1] * s.length - cell[2] - 1)
             newdata == [s.data EXCEPT ![s.turn] = BitOr(@, bitmask)]
             new == GameStateInit(newdata, s.length, PlayerNext(s.turn))
         IN  [exc |-> new.exc, msg |-> new.msg, state |-> new.state,
              self |-> [s EXCEPT !.data = newdata]]

\* Fault: the bit is that of the cell with row and column exchanged.
generate_successor_transposed(s, cell) ==
    IF cell \notin Range(get_empty_cells(s))
    THEN [exc |-> "ValueError", msg |-> "Cell is already occupied.",
          state |-> NoState, self |-> s]
    ELSE LET bitmask == Shl(1, s.length * s.length - cell[2] * s.length - cell[1] - 1)
             newdata == [s.data EXCEPT ![s.turn] = BitOr(@, bitmask)]
             new == GameStateInit(newdata, s.length, PlayerNext(s.turn))
         IN  [exc |-> new.exc, msg |-> new.msg, state |-> new.state, self |-> s]

\* Fault: the successor is made for any cell of the board, taken or not, by
\* setting the fields of a copy of the state, without the constructor's validation.
generate_successor_unchecked(s, cell) ==
    IF cell \notin BoardCellsOf(s)
    THEN [exc |-> "ValueError", msg |-> "Cell is already occupied.",
          state |-> NoState, self |-> s]
    ELSE LET bitmask == Shl(1, s.length * s.length - cell[1] * s.length - cell[2] - 1)
             newdata == [s.data EXCEPT ![s.turn] = BitOr(@, bitmask)]
         IN  [exc |-> "None", msg |-> "", self |-> s,
              state |-> [data |-> newdata, length |-> s.length, turn |-> PlayerNext(s.turn)]]

\* GameState.generate_successor.  self is the state it was called on as the call
\* leaves it: the masks are updated in newdata, a copy of self.data.
generate_successor(s, cell) ==
    IF cell \notin Range(get_empty_cells(s))
    THEN [exc |-> "ValueError", msg |-> "Cell is already occupied.",
          state |-> NoState, self |-> s]
    ELSE LET bitmask == Shl(1, s.length * s.length - cell[1] * s.length - cell[2] - 1)
             newdata == [s.data EXCEPT ![s.turn] = BitOr(@, bitmask)]
             new == GameStateInit(newdata, s.length, PlayerNext(s.turn))
         IN  [exc |-> new.exc, msg |-> new.msg, state |-> new.state, self |-> s]

\* GameState.get_cell_states: the dict comprehension over the players in order
\* (a later player's entry replaces an earlier one), then update() with the
\* empty cells.  The empty cell is the player index 0.
EMPTY_CELL == 0

RECURSIVE owner_loop(_, _, _)
owner_loop(s, c, k) ==
    IF k = 0 THEN EMPTY_CELL
    ELSE IF c \in Range(occupied_cells(s.data[k], s.length)) THEN k
    ELSE owner_loop(s, c, k - 1)

get_cell_states(s) ==
    LET occupied == UNION {Range(occupied_cells(s.data[p], s.length)) : p \in DOMAIN s.data}
        empty == Range(get_empty_cells(s))
    IN  [c \in occupied \cup empty |->
            IF c \in empty THEN EMPTY_CELL ELSE owner_loop(s, c, Len(s.data))]

-----------------------------------------------------------------------------
(* Game. *)

\* Game.__init__: an empty mask per player, the first player to move.
GameInit(length, k) == GameStateInit([p \in 1..k |-> 0], length, 1)

\* Game.__bool__: True while the game is not over.
GameBool(s) == ~is_grid_filled(s) /\ DOMAIN get_winning_sequences(s) = {}

\* Game.get_legal_actions
get_legal_actions(s) == IF GameBool(s) THEN get_empty_cells(s) ELSE << >>

\* Game.get_winning_sequences: raises while the game is not over; otherwise the
\* first item (player, sequences) of the state's winning sequences, or None.
game_get_winning_sequences(s) ==
    IF GameBool(s)
    THEN [exc |-> "RuntimeError", none |-> FALSE, player |-> 0, sequences |-> {}]
    ELSE LET sequences == get_winning_sequences(s)
         IN  IF DOMAIN sequences # {}
             THEN LET p == first_key(sequences)
                  IN  [exc |-> "None", none |-> FALSE, player |-> p,
                       sequences |-> sequences[p]]
             ELSE [exc |-> "None", none |-> TRUE, player |-> 0, sequences |-> {}]

\* Game.make_move: the successor replaces the state, or the exception is caught
\* and the Game keeps the state object it had.
make_move(s, cell) ==
    LET new == generate_successor(s, cell)
    IN  IF new.exc # "None"
        THEN [value |-> FALSE, caught |-> new.exc, msg |-> new.msg, state |-> new.self]
        ELSE [value |-> TRUE, caught |-> "None", msg |-> "", state |-> new.state]

-----------------------------------------------------------------------------
(* The game: any sequence of make_move calls from the empty board. *)

NoArgs == [data |-> << >>, length |-> 0, turn |-> 0]

\* The cells a caller may pass: every cell of the board, cells outside it on each
\* side (a negative coordinate, a coordinate equal to the side length), and a
\* tuple that is not a pair.
ArgCells(n) ==
    ((0..(n - 1)) \X (0..(n - 1))) \cup {<<-1, 0>>, <<0, n>>, <<n, -1>>, <<0>>}

Init ==
    /\ players \in 1..MaxPlayers
    /\ \E length \in 1..DefaultLength : state = GameInit(length, players).state
    /\ args = NoArgs
    /\ ret = [op |-> "Game", value |-> TRUE, exc |-> "None", msg |-> ""]

MakeMove(cell) ==
    \E r \in {make_move(state, cell)} :
        /\ state' = r.state
        /\ ret' = [op |-> "make_move", value |-> r.value, exc |-> r.caught, msg |-> r.msg]
        /\ UNCHANGED <<players, args>>

Next == \E cell \in ArgCells(state.length) : MakeMove(cell)

Spec == Init /\ [][Next]_vars

-----------------------------------------------------------------------------
(* GameState as a value: a constructor call on arbitrary integer masks, then *)
(* a generate_successor call on the state it produced.                       *)

\* The masks and the turn are drawn for boards whose masks take together no more
\* bits than those of the default game (DefaultPlayers masks of DefaultLength squared bits).
MaxArgBits == DefaultPlayers * DefaultLength * DefaultLength

\* The masks a caller may pass for side length n: every mask of n * n bits, and
\* the smallest mask that does not fit the board.
ArgMasks(n) == 0..(2 ^ (n * n))

InitGameState ==
    /\ players \in 1..MaxPlayers
    /\ \E length \in 1..DefaultLength :
          /\ players * length * length <= MaxArgBits
          /\ \E data \in [1..players -> ArgMasks(length)], turn \in 1..(players + 1) :
                args = [data |-> data, length |-> length, turn |-> turn]
    /\ state = NoState
    /\ ret = [op |-> "none", value |-> TRUE, exc |-> "None", msg |-> ""]

\* GameState(data, length, turn)
Construct ==
    /\ args # NoArgs
    /\ \E r \in {GameStateInit(args.data, args.length, args.turn)} :
          /\ state' = r.state
          /\ ret' = [op |-> "GameState", value |-> r.exc = "None", exc |-> r.exc, msg |-> r.msg]
    /\ args' = NoArgs
    /\ UNCHANGED players

\* state.generate_successor(cell), called once on the state the constructor
\* produced (every valid state over the masks drawn is produced by it directly).
\* The state kept is the successor when there is one, and the state the call
\* was made on, as the call left it, otherwise.
Successor(cell) ==
    /\ state # NoState
    /\ ret.op = "GameState"
    /\ \E r \in {generate_successor(state, cell)} :
          /\ state' = IF r.exc = "None" THEN r.state ELSE r.self
          /\ ret' = [op |-> "generate_successor", value |-> r.exc = "None",
                     exc |-> r.exc, msg |-> r.msg]
    /\ UNCHANGED <<players, args>>

NextGameState ==
    \/ Construct
    \/ \E cell \in ArgCells(state.length) : Successor(cell)

SpecGameState == InitGameState /\ [][NextGameState]_vars

-----------------------------------------------------------------------------
(* The board as the specification describes it: a mask has one bit per cell, *)
(* row-major, cell (0,0) in the most significant of the n * n bits.  These     *)
(* definitions use arithmetic on the masks only, none of the operators above. *)

Bit(mask, i) == (mask \div (2 ^ i)) % 2 = 1

BoardCells(n) == (0..(n - 1)) \X (0..(n - 1))

CellBit(n, c) == n * n - 1 - (c[1] * n + c[2])

Holds(mask, n, c) == Bit(mask, CellBit(n, c))

\* The bit positions of the masks of the model: those of the board and the one above them.
BitIndexes(n) == 0..(n * n)

PopCount(mask, n) == Cardinality({i \in BitIndexes(n) : Bit(mask, i)})

LinesOfBoard(n) ==
    {{<<r, c>> : c \in 0..(n - 1)} : r \in 0..(n - 1)}
        \cup {{<<r, c>> : r \in 0..(n - 1)} : c \in 0..(n - 1)}
        \cup {{<<i, i>> : i \in 0..(n - 1)}, {<<i, n - 1 - i>> : i \in 0..(n - 1)}}

AllLines == [n \in 1..DefaultLength |-> LinesOfBoard(n)]

Lines(n) == AllLines[n]

LinesOf(mask, n) == {l \in Lines(n) : \A c \in l : Holds(mask, n, c)}

WinnersOf(data, n) == {p \in DOMAIN data : LinesOf(data[p], n) # {}}

Winners(s) == WinnersOf(s.data, s.length)

Occupants(s, c) == {p \in DOMAIN s.data : Holds(s.data[p], s.length, c)}

FreeCells(s) == {c \in BoardCells(s.length) : Occupants(s, c) = {}}

\* The successor of player p in the cyclic order of the k players of a game.
CyclicNext(p, k) == (p % k) + 1

NoDuplicates(seq) == Cardinality(Range(seq)) = Len(seq)

-----------------------------------------------------------------------------
(* Properties. *)

\* C1: whenever make_move returns False, the game's state is the one before the
\* call: the same turn and the same masks on the same board, hence the same
\* state of every cell (get_cell_states reads the masks and the side length only).
C1_FailedMoveKeepsState ==
    [][(ret'.op = "make_move" /\ ret'.value = FALSE)
          => /\ state'.turn = state.turn
             /\ state'.data = state.data
             /\ state'.length = state.length]_vars

\* A move was refused because the successor failed validation, on a board in play.
C1_Witness ==
    /\ ret.op = "make_move"
    /\ ret.value = FALSE
    /\ ret.exc = "RuntimeError"
    /\ FreeCells(state) # {}

\* The successor the specification describes: s with the bit of cell, which no
\* player held, added to the mask of the player to move, and the turn passed on.
AddsOneBit(s, t, cell) ==
    /\ cell \in FreeCells(s)
    /\ DOMAIN t.data = DOMAIN s.data
    /\ t.length = s.length
    /\ t.data[s.turn] = s.data[s.turn] + 2 ^ CellBit(s.length, cell)
    /\ \A q \in DOMAIN s.data \ {s.turn} : t.data[q] = s.data[q]
    /\ t.turn = CyclicNext(s.turn, players)

\* C2: for every valid GameState and every cell for which generate_successor
\* returns a successor, the successor differs in exactly the bit of that cell,
\* added to the mask of the player whose turn it was, and the turn is that
\* player's next player.
C2_SuccessorAddsOneBit ==
    [][(ret'.op = "generate_successor" /\ ret'.exc = "None")
          => \A cell \in ArgCells(state.length) :
                Successor(cell) => AddsOneBit(state, state', cell)]_vars

\* A successor was generated on the default board with several players and cells taken.
C2_Witness ==
    /\ ret.op = "generate_successor"
    /\ ret.exc = "None"
    /\ state.length = DefaultLength
    /\ players >= 2
    /\ Cardinality(BoardCells(state.length) \ FreeCells(state)) >= 3

\* C3: in every state a Game reaches by make_move calls, no two distinct
\* players' masks share a set bit.
C3_MasksDisjoint ==
    \A p, q \in DOMAIN state.data :
        p # q => \A i \in BitIndexes(state.length) :
                    ~(Bit(state.data[p], i) /\ Bit(state.data[q], i))

\* Two players both hold cells and a move on a taken cell was just refused.
C3_Witness ==
    /\ ret.op = "make_move"
    /\ ret.exc = "ValueError"
    /\ \E p, q \in DOMAIN state.data : p # q /\ state.data[p] # 0 /\ state.data[q] # 0

\* C4: in every state a Game with any number of players reaches by make_move
\* calls, the numbers of cells of any two players differ by at most 1.
C4_CountsBalanced ==
    \A p, q \in DOMAIN state.data :
        PopCount(state.data[p], state.length) - PopCount(state.data[q], state.length) <= 1

\* A game of three players in which the counts are unequal after accepted moves.
C4_Witness ==
    /\ players = 3
    /\ state.length = DefaultLength
    /\ ret.op = "make_move" /\ ret.value = TRUE
    /\ PopCount(state.data[1], state.length) = 3
    /\ PopCount(state.data[3], state.length) = 2

\* C5: in every state a Game reaches by make_move calls, at most one player
\* covers a complete winning line, and get_winning_sequences has at most one key.
C5_AtMostOneWinner ==
    /\ Cardinality(Winners(state)) <= 1
    /\ Cardinality(DOMAIN get_winning_sequences(state)) <= 1

\* A player has won and a later move, which would have completed a line of
\* another player or moved on, was refused.
C5_Witness ==
    /\ players >= 2
    /\ Winners(state) # {}
    /\ ret.op = "make_move"
    /\ ret.exc = "RuntimeError"

\* C6: in every state a Game reaches by make_move calls, if a player has a
\* complete winning line then the turn is that player's successor.
C6_TurnAfterWinner ==
    \A w \in Winners(state) : state.turn = CyclicNext(w, players)

\* The second of three players has just won on the default board.
C6_Witness ==
    /\ players = 3
    /\ state.length = DefaultLength
    /\ Winners(state) = {2}
    /\ ret.op = "make_move" /\ ret.value = TRUE

\* The conditions under which the specification says the constructor fails.
Invalid(a) ==
    \/ a.turn \notin DOMAIN a.data
    \/ \E p, q \in DOMAIN a.data :
          p # q /\ \E i \in BitIndexes(a.length) : Bit(a.data[p], i) /\ Bit(a.data[q], i)
    \/ \E p, q \in DOMAIN a.data :
          PopCount(a.data[p], a.length) - PopCount(a.data[q], a.length) > 1
    \/ Cardinality(WinnersOf(a.data, a.length)) >= 2
    \/ \E w \in WinnersOf(a.data, a.length) : CyclicNext(w, players) # a.turn

\* C7: constructing a GameState fails and produces no state when the turn is
\* not a key of the masks, two masks overlap, two popcounts differ by more than
\* 1, two players cover a winning line, or the winner's next player is not the
\* turn player; and it succeeds, with the given masks and turn, otherwise.
C7_ConstructorValidates ==
    [][ret'.op = "GameState"
          => /\ Invalid(args) <=> (ret'.exc # "None" /\ state' = NoState)
             /\ ~Invalid(args) <=> (ret'.exc = "None" /\ state' = args)]_vars

\* A constructor call failed because two players each covered a winning line.
C7_Witness ==
    /\ ret.op = "GameState"
    /\ ret.exc = "RuntimeError"
    /\ ret.msg = "Multiple players have won."
    /\ state = NoState

\* C8: for every valid GameState, get_empty_cells and the occupied cells of the
\* players' masks partition the board: get_cell_states has exactly n * n keys
\* and maps each cell to its single occupant or to the empty cell.
C8_CellsPartitionBoard ==
    state # NoState =>
        LET n == state.length
            cells == get_cell_states(state)
            empty == get_empty_cells(state)
            occupied == [p \in DOMAIN state.data |-> occupied_cells(state.data[p], n)]
        IN  /\ DOMAIN cells = BoardCells(n)
            /\ Cardinality(DOMAIN cells) = n * n
            /\ NoDuplicates(empty)
            /\ \A p \in DOMAIN state.data : NoDuplicates(occupied[p])
            /\ \A c \in BoardCells(n) :
                  \/ /\ c \in Range(empty)
                     /\ \A p \in DOMAIN state.data : c \notin Range(occupied[p])
                     /\ Occupants(state, c) = {}
                     /\ cells[c] = EMPTY_CELL
                  \/ /\ c \notin Range(empty)
                     /\ \E p \in DOMAIN state.data :
                           /\ {q \in DOMAIN state.data : c \in Range(occupied[q])} = {p}
                           /\ Occupants(state, c) = {p}
                           /\ cells[c] = p

\* A valid state of the default board with two players' cells and empty cells.
C8_Witness ==
    /\ state # NoState
    /\ state.length = DefaultLength
    /\ players = 2
    /\ PopCount(state.data[1], state.length) = 2
    /\ PopCount(state.data[2], state.length) = 3
    /\ Range(get_empty_cells(state)) # {}

\* C9: in every reachable game state, the game is in progress exactly when the
\* board is not filled and no player has a winning sequence, and
\* get_legal_actions is the empty cells when in progress and empty otherwise.
C9_InProgressAndLegalActions ==
    LET progress == FreeCells(state) # {} /\ Winners(state) = {}
        legal == get_legal_actions(state)
    IN  /\ GameBool(state) <=> progress
        /\ is_grid_filled(state) <=> FreeCells(state) = {}
        /\ progress => Range(legal) = FreeCells(state) /\ NoDuplicates(legal)
        /\ ~progress => legal = << >>

\* The default board is filled and nobody has won.
C9_Witness ==
    /\ state.length = DefaultLength
    /\ players = 2
    /\ FreeCells(state) = {}
    /\ Winners(state) = {}
    /\ ret.op = "make_move" /\ ret.value = TRUE

\* C10: Game.get_winning_sequences raises exactly when the game is in progress;
\* when it is over it returns the winner with all the lines the winner
\* completes, or no winner exactly when the board is filled and no player has
\* a winning line.
C10_WinnerVerdict ==
    LET progress == FreeCells(state) # {} /\ Winners(state) = {}
        r == game_get_winning_sequences(state)
    IN  /\ r.exc = "RuntimeError" <=> progress
        /\ ~progress =>
              /\ r.exc = "None"
              /\ r.none <=> (FreeCells(state) = {} /\ Winners(state) = {})
              /\ ~r.none =>
                    /\ r.player \in Winners(state)
                    /\ {Range(seq) : seq \in r.sequences}
                          = LinesOf(state.data[r.player], state.length)
                    /\ Cardinality(r.sequences)
                          = Cardinality(LinesOf(state.data[r.player], state.length))

\* The first of two players has won with two lines at once.
C10_Witness ==
    /\ players = 2
    /\ state.length = DefaultLength
    /\ Cardinality(LinesOf(state.data[1], state.length)) = 2
    /\ ret.op = "make_move" /\ ret.value = TRUE

-----------------------------------------------------------------------------
(* The script run when the module is executed: a default Game, then make_move *)
(* on each cell of a fixed list.                                              *)

\* The cells of the for loop of the script, in the order they are passed.
main_cells == <<(<<0, 0>>), (<<1, 0>>), (<<1, 1>>), (<<2, 2>>), (<<0, 1>>), (<<0, 2>>), (<<2, 1>>)>>

\* The board the script is expected to show after k calls when each one places
\* a mark and the two players alternate, the first player first.
MainBoard(s, k) ==
    /\ DOMAIN s.data = 1..DefaultPlayers
    /\ s.length = DefaultLength
    /\ \A c \in BoardCells(DefaultLength) :
          Occupants(s, c) = {((i - 1) % 2) + 1 : i \in {j \in 1..k : main_cells[j] = c}}

\* The line the first player holds at the end of the script.
MainColumn == {<<0, 1>>, <<1, 1>>, <<2, 1>>}

\* C11 as stated: in the script every move is accepted, the players alternate,
\* and after the last move no player has a line: the verdict is no winner.
C11_MainEndsWithoutWinner ==
    \A k \in 0..Len(main_cells) :
        (players = DefaultPlayers /\ MainBoard(state, k)) =>
            /\ state.turn = (k % 2) + 1
            /\ k < Len(main_cells) =>
                  \E r \in {make_move(state, main_cells[k + 1])} :
                      r.value /\ MainBoard(r.state, k + 1)
            /\ k = Len(main_cells) =>
                  /\ Winners(state) = {}
                  /\ game_get_winning_sequences(state).none

\* C11 amended: in the script every move is accepted and the players alternate;
\* the last move completes the middle column for the first player, so the
\* script ends with that player the winner, on that one line, and two cells empty.
C11_MainEndsWithColumn ==
    \A k \in 0..Len(main_cells) :
        (players = DefaultPlayers /\ MainBoard(state, k)) =>
            /\ state.turn = (k % 2) + 1
            /\ k < Len(main_cells) =>
                  /\ Winners(state) = {}
                  /\ \E r \in {make_move(state, main_cells[k + 1])} :
                        r.value /\ MainBoard(r.state, k + 1)
            /\ k = Len(main_cells) =>
                  /\ Winners(state) = {1}
                  /\ LinesOf(state.data[1], state.length) = {MainColumn}
                  /\ Cardinality(FreeCells(state)) = 2
                  /\ \E w \in {game_get_winning_sequences(state)} :
                        /\ w.exc = "None" /\ ~w.none /\ w.player = 1
                        /\ {Range(seq) : seq \in w.sequences} = {MainColumn}
                  /\ get_legal_actions(state) = << >>

\* The board after the last move of the script, which was accepted.
C11_Witness ==
    /\ players = DefaultPlayers
    /\ MainBoard(state, Len(main_cells))
    /\ ret.op = "make_move" /\ ret.value = TRUE

-----------------------------------------------------------------------------
(* The helpers as functions: one call of a helper on arguments drawn at the   *)
(* start, its result kept in ret.  No game is involved: state stays NoState.  *)

NoCall == [op |-> "none", value |-> TRUE, exc |-> "None", msg |-> ""]

\* occupied_cells(bitstring, n) for every mask the default board can hold and the
\* smallest mask above them; on a smaller board these masks have bits above the board.
ArgsOccupiedCells ==
    {[op |-> "occupied_cells", bitstring |-> b, n |-> n] :
        b \in 0..(2 ^ (DefaultLength * DefaultLength)), n \in 1..DefaultLength}

\* The square bit grids of side n, as tuples of rows.
Grids(n) == [1..n -> [1..n -> {0, 1}]]

\* Grids that are not square, and square grids with an entry that is not a bit.
BadGrids ==
    {<< <<0, 1>> >>, << <<1, 0>>, <<1>> >>, << <<1>>, <<0>> >>,
     << <<2>> >>, << <<0, 1>>, <<-1, 0>> >>}

\* matrix_to_bitstring(grid)
ArgsMatrixToBitstring ==
    {[op |-> "matrix_to_bitstring", grid |-> g] :
        g \in UNION {Grids(n) : n \in 1..DefaultLength} \cup BadGrids}

\* The largest side length the winning sequences are generated for.
MaxLength == 4

\* GameState.generate_winning_sequences(length)
ArgsWinningSequences ==
    {[op |-> "generate_winning_sequences", length |-> n] : n \in 1..MaxLength}

\* Player(representation).next: strings of one character, of two and of none.
ArgsPlayer ==
    {[op |-> "Player", representation |-> r] : r \in {<<"X">>, <<"O">>, <<"X", "O">>, << >>}}

InitFunctions ==
    /\ players = DefaultPlayers
    /\ state = NoState
    /\ args \in ArgsOccupiedCells \cup ArgsMatrixToBitstring \cup ArgsWinningSequences
                  \cup ArgsPlayer
    /\ ret = NoCall

OccupiedCells ==
    /\ ret.op = "none"
    /\ args.op = "occupied_cells"
    /\ ret' = [op |-> "occupied_cells", value |-> occupied_cells(args.bitstring, args.n),
               exc |-> "None", msg |-> ""]
    /\ UNCHANGED <<players, state, args>>

MatrixToBitstring ==
    /\ ret.op = "none"
    /\ args.op = "matrix_to_bitstring"
    /\ \E r \in {matrix_to_bitstring(args.grid)} :
          ret' = [op |-> "matrix_to_bitstring", value |-> r.value, exc |-> r.exc, msg |-> r.msg]
    /\ UNCHANGED <<players, state, args>>

\* The value is the entry the call stores in the cache for that length.
GenerateWinningSequences ==
    /\ ret.op = "none"
    /\ args.op = "generate_winning_sequences"
    /\ ret' = [op |-> "generate_winning_sequences",
               value |-> generate_winning_sequences(args.length), exc |-> "None", msg |-> ""]
    /\ UNCHANGED <<players, state, args>>

\* A Player is constructed and, before anything else touches it, its next is read.
NewPlayerNext ==
    /\ ret.op = "none"
    /\ args.op = "Player"
    /\ \E new \in {PlayerInit(args.representation)} :
          IF new.exc # "None"
          THEN ret' = [op |-> "Player", value |-> None, exc |-> new.exc, msg |-> new.msg]
          ELSE \E r \in {PlayerGetNext(new.player)} :
                  ret' = [op |-> "Player.next", value |-> r.value, exc |-> r.exc, msg |-> r.msg]
    /\ UNCHANGED <<players, state, args>>

NextFunctions ==
    \/ OccupiedCells
    \/ MatrixToBitstring
    \/ GenerateWinningSequences
    \/ NewPlayerNext

SpecFunctions == InitFunctions /\ [][NextFunctions]_vars

\* The position of a cell in row-major order, cell (0,0) first.
RowMajorIndex(n, c) == c[1] * n + c[2]

\* C12 as stated: occupied_cells returns the cells whose bit is set, each once,
\* in row-major order: cell (0,0) first and cell (n-1,n-1) last.
C12_OccupiedCellsRowMajor ==
    ret.op = "occupied_cells" =>
        /\ Range(ret.value) = {c \in BoardCells(args.n) : Holds(args.bitstring, args.n, c)}
        /\ \A i, j \in DOMAIN ret.value :
              i < j => RowMajorIndex(args.n, ret.value[i]) < RowMajorIndex(args.n, ret.value[j])

\* C12 amended: occupied_cells returns the cells of the board whose bit is set,
\* each once, in reverse row-major order (it scans from the least significant
\* bit): cell (n-1,n-1) first and cell (0,0) last.  Bits above the board are ignored.
C12_OccupiedCellsReverseRowMajor ==
    ret.op = "occupied_cells" =>
        /\ Range(ret.value) = {c \in BoardCells(args.n) : Holds(args.bitstring, args.n, c)}
        /\ \A i, j \in DOMAIN ret.value :
              i < j => RowMajorIndex(args.n, ret.value[i]) > RowMajorIndex(args.n, ret.value[j])

\* Both corners of the default board are set, with other cells between them.
C12_Witness ==
    /\ ret.op = "occupied_cells"
    /\ args.n = DefaultLength
    /\ Len(ret.value) > 2
    /\ ret.value[1] = <<DefaultLength - 1, DefaultLength - 1>>
    /\ ret.value[Len(ret.value)] = <<0, 0>>

\* The grid a mask describes on a board of side n, cell (0,0) in bit n * n - 1.
GridOf(mask, n) ==
    [r \in 1..n |-> [c \in 1..n |-> IF Holds(mask, n, <<r - 1, c - 1>>) THEN 1 ELSE 0]]

\* The cells of a grid that hold 1.
OneCells(grid) ==
    {c \in BoardCells(Len(grid)) : grid[c[1] + 1][c[2] + 1] = 1}

\* C13: on the n x n bit grids matrix_to_bitstring is a bijection onto
\* 0 .. 2^(n*n)-1, row-major with cell (0,0) in the most significant bit: the
\* value is in that range and the grid is read back from it bit by bit (no two
\* grids share a value), every value of the range is the value of the grid it
\* describes, and the cells occupied_cells finds in the value are the cells of
\* the grid that hold 1.
C13_MatrixBijectionRoundTrip ==
    (ret.op = "matrix_to_bitstring" /\ \E n \in 1..DefaultLength : args.grid \in Grids(n)) =>
        LET n == Len(args.grid)
        IN  /\ ret.exc = "None"
            /\ ret.value \in 0..(2 ^ (n * n) - 1)
            /\ GridOf(ret.value, n) = args.grid
            /\ \A g \in Grids(n) : matrix_to_bitstring(g).value = ret.value => g = args.grid
            /\ \A mask \in 0..(2 ^ (n * n) - 1) :
                  matrix_to_bitstring(GridOf(mask, n)) = [exc |-> "None", msg |-> "", value |-> mask]
            /\ Range(occupied_cells(ret.value, n)) = OneCells(args.grid)

\* A grid of the default side with cell (0,0) set and the last cell clear, which
\* neither a transposed nor a reversed reading maps to the same value.
C13_Witness ==
    /\ ret.op = "matrix_to_bitstring"
    /\ ret.exc = "None"
    /\ Len(args.grid) = DefaultLength
    /\ args.grid[1][1] = 1 /\ args.grid[1][2] = 1 /\ args.grid[2][1] = 0
    /\ args.grid[DefaultLength][DefaultLength] = 0

\* The cells of a board of side n whose bit is set in a mask.
CellsOf(mask, n) == {c \in BoardCells(n) : Holds(mask, n, c)}

\* C14: the winning sequences generated for side length n are exactly the masks
\* of the n rows, the n columns and the two diagonals of the board: every mask
\* lies within the board, has n set bits and covers one of these lines, every
\* line has its mask, and there are 2n+2 masks for n >= 2 and one for n = 1.
C14_WinningSequencesAreTheLines ==
    ret.op = "generate_winning_sequences" =>
        LET n == args.length
        IN  /\ \A mask \in ret.value :
                  /\ mask \in 1..(2 ^ (n * n) - 1)
                  /\ PopCount(mask, n) = n
                  /\ CellsOf(mask, n) \in LinesOfBoard(n)
            /\ \A line \in LinesOfBoard(n) : \E mask \in ret.value : CellsOf(mask, n) = line
            /\ Cardinality(ret.value) = IF n = 1 THEN 1 ELSE 2 * n + 2

\* The eight lines of the default board.
C14_Witness ==
    /\ ret.op = "generate_winning_sequences"
    /\ args.length = DefaultLength
    /\ Cardinality(ret.value) = 2 * DefaultLength + 2

\* C15: reading the next player of a freshly constructed Player, for which no
\* next player has been set, fails with RuntimeError.
C15_UnsetNextRaises ==
    ret.op = "Player.next" => ret.exc = "RuntimeError"

\* What the code does instead: the fresh Player returns itself as its next player.
C15_Witness ==
    /\ ret.op = "Player.next"
    /\ ret.exc = "None"
    /\ ret.value = args.representation

\* C16: generate_successor never changes the GameState it is called on: on every
\* state, constructed or returned as a successor, and for any cell, whether the
\* call returns a successor or raises, the receiver has after the call the masks,
\* the side length and the turn it had before, it still passes validation, and
\* a successor is another state than the receiver.
C16_ReceiverUnchanged ==
    state # NoState =>
        \A cell \in ArgCells(state.length) :
            \E r \in {generate_successor(state, cell)} :
                /\ r.self.data = state.data
                /\ r.self.length = state.length
                /\ r.self.turn = state.turn
                /\ validate(r.self) = "ok"
                /\ r.exc = "None" => r.state # r.self

\* A successor was returned in which the player who moved has won.
C16_Witness ==
    /\ ret.op = "generate_successor"
    /\ ret.value = TRUE
    /\ state.length = DefaultLength
    /\ Winners(state) # {}

\* The tuples of two integers.
IsPair(cell) == Len(cell) = 2

\* C17: generate_successor raises TypeError for a cell that is not a tuple of
\* two integers, IndexError for a pair with a coordinate outside the board, and
\* ValueError only for a cell of the board that a player occupies.
C17_SuccessorErrorKinds ==
    state # NoState =>
        \A cell \in ArgCells(state.length) :
            \E r \in {generate_successor(state, cell)} :
                /\ ~IsPair(cell) => r.exc = "TypeError"
                /\ (IsPair(cell) /\ cell \notin BoardCells(state.length)) => r.exc = "IndexError"
                /\ r.exc = "ValueError" =>
                      (cell \in BoardCells(state.length) /\ Occupants(state, cell) # {})

\* What the code does instead: the call was refused with ValueError on a state
\* whose board has no occupied cell.
C17_Witness ==
    /\ ret.op = "generate_successor"
    /\ ret.exc = "ValueError"
    /\ \A c \in BoardCells(state.length) : Occupants(state, c) = {}

-----------------------------------------------------------------------------
(* GameState built from grids: a constructor call on a grid for each player.  *)

\* The largest side of the grids drawn for a game of k players: the default
\* side for one player, one less for more players.
MaxGridSide(k) == IF k = 1 THEN DefaultLength ELSE DefaultLength - 1

\* The grids a caller may pass for a player in a game of k players.
ArgGrids(k) == UNION {Grids(n) : n \in 1..MaxGridSide(k)} \cup BadGrids

InitGrids ==
    /\ players \in 1..DefaultPlayers
    /\ \E data \in [1..players -> ArgGrids(players)], length \in 1..DefaultLength,
          turn \in 1..(players + 1) :
            args = [data |-> data, length |-> length, turn |-> turn]
    /\ state = NoState
    /\ ret = NoCall

\* GameState(data, length, turn), data holding a grid for each player.
ConstructGrids ==
    /\ ret.op = "none"
    /\ \E r \in {GameStateInitGrids(args.data, args.length, args.turn)} :
          /\ state' = r.state
          /\ ret' = [op |-> "GameState", value |-> r.exc = "None", exc |-> r.exc, msg |-> r.msg]
    /\ UNCHANGED <<players, args>>

\* The states the constructed state is compared with: a state with the same
\* fields, and its successors.
OtherStates(s) ==
    {s} \cup {r.state : r \in {t \in {generate_successor(s, cell) : cell \in BoardCellsOf(s)} :
                                  t.exc = "None"}}

\* state == other, on the state the constructor produced; args holds other.
Equal(other) ==
    /\ ret.op = "GameState"
    /\ state # NoState
    /\ \E r \in {GameStateEq(state, other)} :
          ret' = [op |-> "__eq__", value |-> r.value, exc |-> r.exc, msg |-> r.msg]
    /\ args' = other
    /\ UNCHANGED <<players, state>>

NextGrids ==
    \/ ConstructGrids
    \/ \E other \in OtherStates(state) : Equal(other)

SpecGrids == InitGrids /\ [][NextGrids]_vars

\* The square bit grids, of any side drawn.
IsBitGrid(grid) == \E n \in 1..DefaultLength : grid \in Grids(n)

\* C18: a constructor call with square bit grids of which one has a side that is
\* not the side length of the state fails with TypeError and produces no state,
\* so that in every state constructed from grids each mask fits in
\* length * length bits.
C18_GridOfOtherSideRejected ==
    ret.op = "GameState" =>
        /\ (/\ \A p \in DOMAIN args.data : IsBitGrid(args.data[p])
            /\ \E p \in DOMAIN args.data : Len(args.data[p]) # args.length)
              => (ret.exc = "TypeError" /\ state = NoState)
        /\ state # NoState
              => \A p \in DOMAIN state.data : state.data[p] < 2 ^ (state.length * state.length)

\* What the code does instead: a state was constructed in which a mask has a bit
\* above the board.
C18_Witness ==
    /\ ret.op = "GameState"
    /\ ret.exc = "None"
    /\ \E p \in DOMAIN state.data : state.data[p] >= 2 ^ (state.length * state.length)

\* C19: == on two valid GameStates over the same players returns True when each
\* player has the same mask in both and False otherwise.
C19_EqualComparesMasks ==
    ret.op = "__eq__" =>
        /\ ret.exc = "None"
        /\ ret.value <=> (args.data = state.data)

\* What the code does instead: comparing two states with the same masks for two
\* players raised IndexError.
C19_Witness ==
    /\ ret.op = "__eq__"
    /\ ret.exc = "IndexError"
    /\ Len(state.data) = DefaultPlayers
    /\ args.data = state.data

\* C20: in a Game of two or more players, in every reachable state and for every
\* cell passed, make_move returns True exactly when the cell is one of
\* get_legal_actions(), the board then holds the mark, and no move is accepted
\* once a player has won or the board is filled.
C20_AcceptedIffLegal ==
    players >= 2 =>
        \E legal \in {Range(get_legal_actions(state))}, free \in {FreeCells(state)},
           over \in {Winners(state) # {} \/ FreeCells(state) = {}} :
            \A cell \in ArgCells(state.length) :
                \E r \in {make_move(state, cell)} :
                    /\ r.value <=> cell \in legal
                    /\ r.value => (cell \in free /\ Occupants(r.state, cell) = {state.turn})
                    /\ over => ~r.value

\* After an accepted move the first of three players has won with cells left:
\* every further move is refused though cells are empty.
C20_Witness ==
    /\ players = MaxPlayers
    /\ state.length = DefaultLength
    /\ ret.op = "make_move" /\ ret.value = TRUE
    /\ Winners(state) = {1}
    /\ FreeCells(state) # {}

\* The number of occupied cells of a state.
OccupiedCount(s) == Cardinality(BoardCells(s.length) \ FreeCells(s))

\* C21: in a Game of k players, in every reachable state with m occupied cells
\* the turn is the player at position m mod k of the list (the first player at
\* position 0), and the player at position i holds ceil((m - i) / k) cells:
\* the accepted moves were made in the cyclic order of the list, the first
\* player first.
C21_TurnFollowsListOrder ==
    LET k == players
        m == OccupiedCount(state)
    IN  /\ state.turn = (m % k) + 1
        /\ \A p \in 1..k :
              PopCount(state.data[p], state.length) = (m - (p - 1) + k - 1) \div k
        /\ \A c \in BoardCells(state.length) : Cardinality(Occupants(state, c)) <= 1

\* Seven moves were accepted in a game of three players on the default board:
\* the first player holds three cells, the others two each, and the second
\* player is to move.
C21_Witness ==
    /\ players = MaxPlayers
    /\ state.length = DefaultLength
    /\ OccupiedCount(state) = 2 * MaxPlayers + 1
    /\ PopCount(state.data[1], state.length) = 3
    /\ state.turn = 2
    /\ ret.op = "make_move" /\ ret.value = TRUE

-----------------------------------------------------------------------------
(* The game played to its end: a legal action is played whenever there is one. *)

\* No mask covers a winning sequence, by the test of get_winning_sequences.
NoSequenceCovered(s) ==
    \A p \in DOMAIN s.data : \E mask \in {s.data[p]} :
        \A w \in winning_sequences(s) : BitXor(BitAnd(mask, w), w) # 0

\* No mask has the bit: the cell of the bit is one of get_empty_cells().
IsEmptyBit(s, bitmask) ==
    \A p \in DOMAIN s.data : \E mask \in {s.data[p]} : BitAnd(mask, bitmask) = 0

\* The bit of a cell, as generate_successor computes it.
BitOfCell(s, cell) == Shl(1, s.length * s.length - cell[1] * s.length - cell[2] - 1)

\* There is a legal action: the game is in progress.
CanPlay(s) ==
    /\ NoSequenceCovered(s)
    /\ \E cell \in BoardCellsOf(s) : IsEmptyBit(s, BitOfCell(s, cell))

\* A legal action is played: make_move is called on a cell of get_legal_actions()
\* and returns True.  The step is that of the statements of generate_successor
\* that build the successor: the bit of the cell is set in the mask of the
\* player to move and the turn passes to turn.next.
LegalMove ==
    /\ ret' = [op |-> "make_move", value |-> TRUE, exc |-> "None", msg |-> ""]
    /\ UNCHANGED <<players, args>>
    /\ NoSequenceCovered(state)
    /\ \E cell \in BoardCellsOf(state) : \E bitmask \in {BitOfCell(state, cell)} :
          /\ IsEmptyBit(state, bitmask)
          /\ state' = [data |-> [state.data EXCEPT ![state.turn] = BitOr(@, bitmask)],
                       length |-> state.length,
                       turn |-> PlayerNext(state.turn)]

SpecPlayed == Init /\ [][Next]_vars /\ WF_vars(LegalMove)

\* C22: every game terminates.  Each make_move call that returns True occupies
\* one more cell of the board, so that at most length * length calls return
\* True in a run, and it leaves a game that is over over (a call that returns
\* False leaves the state as it is); a legal action can be played exactly when
\* get_legal_actions() is not empty, and playing one is exactly a call that
\* returns True while the game is in progress; and when a legal action is played
\* whenever one exists, the game is eventually over for ever.
C22_GameTerminates ==
    /\ [][/\ ret.op = "Game" => (CanPlay(state) <=> get_legal_actions(state) # << >>)
          /\ (ret'.op = "make_move" /\ ret'.value = TRUE)
                => \E before \in {GameBool(state)}, after \in {GameBool(state')} :
                      /\ OccupiedCount(state') = OccupiedCount(state) + 1
                      /\ OccupiedCount(state') <= state.length * state.length
                      /\ ~before => ~after
                      /\ LegalMove <=> before
                      /\ CanPlay(state') <=> get_legal_actions(state') # << >>
          /\ (ret'.op = "make_move" /\ ret'.value = FALSE) => state' = state]_vars
    /\ <>[](~GameBool(state))

\* The one player of a game has been given every cell of the default board:
\* length * length calls returned True, the last of them after the game was over.
C22_Witness ==
    /\ players = 1
    /\ state.length = DefaultLength
    /\ FreeCells(state) = {}
    /\ ~GameBool(state)
    /\ ret.op = "make_move" /\ ret.value = TRUE

====
